---- MODULE Spec2Model ----
(***************************************************************************)
(* Configuration resolution of ScandEval: the language / dataset-task      *)
(* resolvers of benchmark_config_factory.py and the Hugging Face Hub       *)
(* resolvers of hf_hub.py.                                                 *)
(*                                                                         *)
(* Every operation is a synchronous call.  The state is the last call      *)
(* (operation and arguments), what it gave back to its caller (a value or   *)
(* a raised exception) and the log of registry queries it issued.           *)
(*                                                                         *)
(* Python values: a str is a TLA+ string, a list is a sequence, None and    *)
(* the str/list union of a selector are tagged records [t, v].  A list      *)
(* built by list(set(...)) has no specified order in Python; SetToList      *)
(* fixes one enumeration, and nothing below reads the order of such a list  *)
(* other than to iterate over it.                                           *)
(***************************************************************************)
EXTENDS Integers, Sequences, FiniteSets, TLC

VARIABLES call, ret, net

vars == <<call, ret, net>>

(***************************************************************************)
(* Bounds of the explored inputs.                                          *)
(***************************************************************************)
\* longest list given as the `language` selector
MaxSel == 2
\* longest tag list of a registry match
MaxTags == 2
\* longest `languages` sequence given to get_model_lists
MaxLangs == 2

(***************************************************************************)
(* Python built-ins.                                                       *)
(***************************************************************************)
Return(v) == [kind |-> "return", val |-> v]

Raise(e) == [kind |-> "raise", exc |-> e]

\* an exception object the package itself constructs and raises
Exc(type) == [type |-> type, origin |-> "scandeval"]

\* an exception object constructed by the HTTP transport under HfApi
TransportExc(type) == [type |-> type, origin |-> "transport"]

SetOf(seq) == {seq[i] : i \in DOMAIN seq}

\* x in list
InList(x, seq) == \E i \in DOMAIN seq : seq[i] = x

\* needle in haystack, both str: substring test
StrContains(hay, needle) ==
    \E i \in 1..(Len(hay) - Len(needle) + 1) :
        SubSeq(hay, i, i + Len(needle) - 1) = needle

\* s.startswith(prefix)
StartsWith(s, prefix) ==
    /\ Len(s) >= Len(prefix)
    /\ SubSeq(s, 1, Len(prefix)) = prefix

\* positions of the one-character string c in s
Positions(s, c) == {i \in 1..Len(s) : SubSeq(s, i, i) = c}

Min(S) == CHOOSE m \in S : \A n \in S : m <= n

\* s.split(c, 1) when c occurs in s: the text before and after the first c
SplitFirst(s, c) ==
    LET p == Min(Positions(s, c))
    IN  <<SubSeq(s, 1, p - 1), SubSeq(s, p + 1, Len(s))>>

RECURSIVE SetToList(_)
\* list(set): the elements once each
SetToList(S) ==
    IF S = {} THEN <<>>
    ELSE LET x == CHOOSE y \in S : TRUE
         IN  <<x>> \o SetToList(S \ {x})

(***************************************************************************)
(* Selectors: str | list[str] | None.                                      *)
(***************************************************************************)
\* a str selector carries its text as v[1], so that selectors of the three
\* shapes are records of one type
Str(s) == [t |-> "str", v |-> <<s>>]

List(l) == [t |-> "list", v |-> l]

None == [t |-> "none", v |-> <<>>]

\* "all" in selector: substring test on a str, membership on a list
AllIn(sel) ==
    IF sel.t = "str" THEN StrContains(sel.v[1], "all") ELSE InList("all", sel.v)

(***************************************************************************)
(* The catalogs (languages.py, dataset_tasks.py).                          *)
(***************************************************************************)
\* get_all_languages(): code -> Language, in this order.  languages.py is
\* not part of the sources at hand; these are codes the command line offers
\* (cli.py), the three Norwegian ones among them
LanguageCodes == <<"da", "sv", "no", "nb", "nn">>

LanguageName(code) ==
    CASE code = "da" -> "Danish"
      [] code = "sv" -> "Swedish"
      [] code = "no" -> "Norwegian"
      [] code = "nb" -> "Norwegian Bokmal"
      [] code = "nn" -> "Norwegian Nynorsk"

Language(code) == [code |-> code, name |-> LanguageName(code)]

CatalogCodes == SetOf(LanguageCodes)

AllLanguages == [i \in DOMAIN LanguageCodes |-> Language(LanguageCodes[i])]

\* get_all_dataset_tasks(): name -> DatasetTask, in this order
DatasetTaskNames == <<"sentiment-classification", "ner", "qa">>

DatasetTask(name) ==
    [name |-> name,
     supertask |-> CASE name = "sentiment-classification" -> "text-classification"
                     [] name = "ner" -> "token-classification"
                     [] name = "qa" -> "question-answering"]

AllDatasetTasks == [i \in DOMAIN DatasetTaskNames |-> DatasetTask(DatasetTaskNames[i])]

(***************************************************************************)
(* benchmark_config_factory.py                                             *)
(***************************************************************************)
\* The 'no' rule without its converse branch.
prepare_languages_no_converse(language) ==
    LET languages == IF AllIn(language) THEN LanguageCodes
                     ELSE IF language.t = "str" THEN <<language.v[1]>>
                     ELSE language.v
    IN  IF InList("no", languages)
        THEN SetToList(SetOf(languages) \cup {"nb", "nn"})
        ELSE languages

\* 'all' kept as an ordinary code instead of being expanded.
prepare_languages_no_all(language) ==
    LET languages == IF language.t = "str" THEN <<language.v[1]>> ELSE language.v
    IN  IF InList("no", languages)
        THEN SetToList(SetOf(languages) \cup {"nb", "nn"})
        ELSE IF InList("nb", languages) \/ InList("nn", languages)
        THEN SetToList(SetOf(languages) \cup {"no"})
        ELSE languages

\* Both rules add all three Norwegian codes.
prepare_languages_full_closure(language) ==
    LET languages == IF AllIn(language) THEN LanguageCodes
                     ELSE IF language.t = "str" THEN <<language.v[1]>>
                     ELSE language.v
    IN  IF InList("no", languages) \/ InList("nb", languages) \/ InList("nn", languages)
        THEN SetToList(SetOf(languages) \cup {"no", "nb", "nn"})
        ELSE languages

prepare_languages(language) ==
    LET languages == IF AllIn(language) THEN LanguageCodes
                     ELSE IF language.t = "str" THEN <<language.v[1]>>
                     ELSE language.v
    IN  IF InList("no", languages)
        THEN SetToList(SetOf(languages) \cup {"nb", "nn"})
        ELSE IF InList("nb", languages) \/ InList("nn", languages)
        THEN SetToList(SetOf(languages) \cup {"no"})
        ELSE languages

\* [language_mapping[language] for language in codes]: KeyError on the first
\* code that is no key of the catalog
\* Codes missing from the catalog are left out of the result.
Hydrate_skip_unknown(codes) ==
    LET known == SelectSeq(codes, LAMBDA code : code \in CatalogCodes)
    IN  Return([i \in DOMAIN known |-> Language(known[i])])

\* [language_mapping[language] for language in codes]
Hydrate(codes) ==
    IF \A i \in DOMAIN codes : codes[i] \in CatalogCodes
    THEN Return([i \in DOMAIN codes |-> Language(codes[i])])
    ELSE Raise(Exc("KeyError"))

\* The override is added to the base languages instead of replacing them.
prepare_model_languages_union(model_language, languages) ==
    LET model_languages_str ==
            IF model_language.t = "none" THEN languages
            ELSE IF model_language.t = "str" THEN languages \o <<model_language.v[1]>>
            ELSE languages \o model_language.v
    IN  IF InList("all", model_languages_str)
        THEN Return(AllLanguages)
        ELSE Hydrate(model_languages_str)

prepare_model_languages(model_language, languages) ==
    LET model_languages_str ==
            IF model_language.t = "none" THEN languages
            ELSE IF model_language.t = "str" THEN <<model_language.v[1]>>
            ELSE model_language.v
    IN  IF InList("all", model_languages_str)
        THEN Return(AllLanguages)
        ELSE Hydrate(model_languages_str)

prepare_dataset_languages(dataset_language, languages) ==
    LET dataset_languages_str ==
            IF dataset_language.t = "none" THEN languages
            ELSE IF dataset_language.t = "str" THEN <<dataset_language.v[1]>>
            ELSE dataset_language.v
    IN  IF InList("all", dataset_languages_str)
        THEN Return(AllLanguages)
        ELSE Hydrate(dataset_languages_str)

prepare_dataset_tasks(dataset_task) ==
    IF dataset_task.t = "none" THEN Return(AllDatasetTasks)
    ELSE LET names == IF dataset_task.t = "str" THEN <<dataset_task.v[1]>>
                      ELSE dataset_task.v
         IN  IF \A i \in DOMAIN names : InList(names[i], DatasetTaskNames)
             THEN Return([i \in DOMAIN names |-> DatasetTask(names[i])])
             ELSE Raise(Exc("KeyError"))

\* The dataset languages are resolved from the override of the model languages.
build_benchmark_config_shared_override(language, model_language, dataset_language, dataset_task) ==
    LET languages == prepare_languages(language)
        model_languages == prepare_model_languages(model_language, languages)
        dataset_languages == prepare_dataset_languages(model_language, languages)
        dataset_tasks == prepare_dataset_tasks(dataset_task)
    IN  IF model_languages.kind = "raise" THEN model_languages
        ELSE IF dataset_languages.kind = "raise" THEN dataset_languages
        ELSE IF dataset_tasks.kind = "raise" THEN dataset_tasks
        ELSE Return([model_languages |-> model_languages.val,
                     dataset_languages |-> dataset_languages.val,
                     dataset_tasks |-> dataset_tasks.val])

\* The fields of BenchmarkConfig that are resolved; the others are the
\* arguments handed through unchanged.
build_benchmark_config(language, model_language, dataset_language, dataset_task) ==
    LET languages == prepare_languages(language)
        model_languages == prepare_model_languages(model_language, languages)
        dataset_languages == prepare_dataset_languages(dataset_language, languages)
        dataset_tasks == prepare_dataset_tasks(dataset_task)
    IN  IF model_languages.kind = "raise" THEN model_languages
        ELSE IF dataset_languages.kind = "raise" THEN dataset_languages
        ELSE IF dataset_tasks.kind = "raise" THEN dataset_tasks
        ELSE Return([model_languages |-> model_languages.val,
                     dataset_languages |-> dataset_languages.val,
                     dataset_tasks |-> dataset_tasks.val])

(***************************************************************************)
(* The model registry (huggingface_hub.HfApi.list_models) as the resolvers *)
(* see it: a query either fails in the transport with some subclass of     *)
(* requests' RequestException, or answers with a list of models.           *)
(***************************************************************************)
\* requests.exceptions raised by a failing transport; all are subclasses of
\* RequestException
TransportErrors == {"ConnectionError", "Timeout", "HTTPError"}

IsRequestException(e) == e.type \in TransportErrors

Failure(type) == [status |-> "error", error |-> type, models |-> <<>>]

Answer(models) == [status |-> "ok", error |-> "", models |-> models]

\* a model of the registry: ModelInfo's id, tags and pipeline_tag
ModelInfo(id, tags, pipeline_tag) ==
    [id |-> id, tags |-> tags, pipeline_tag |-> pipeline_tag]

\* one entry of the call's query log
Query(filter, response) == [filter |-> filter, response |-> response]

(***************************************************************************)
(* hf_hub.py: get_model_config                                             *)
(***************************************************************************)
\* Framework detection with TensorFlow/Keras models falling back to PyTorch.
DetectFramework_tf_fallback(tags) ==
    IF InList("pytorch", tags) THEN Return("pytorch")
    ELSE IF InList("jax", tags) THEN Return("jax")
    ELSE IF InList("spacy", tags) THEN Return("spacy")
    ELSE Return("pytorch")

\* the framework of a model from its tags, which defaults to PyTorch
DetectFramework(tags) ==
    IF InList("pytorch", tags) THEN Return("pytorch")
    ELSE IF InList("jax", tags) THEN Return("jax")
    ELSE IF InList("spacy", tags) THEN Return("spacy")
    ELSE IF InList("tf", tags) \/ InList("tensorflow", tags) \/ InList("keras", tags)
    THEN Raise(Exc("InvalidBenchmark"))
    ELSE Return("pytorch")

\* the task of a model, which defaults to 'fill-mask'
DetectTask(pipeline_tag) ==
    IF pipeline_tag.t = "none" THEN "fill-mask"
    ELSE IF pipeline_tag.v[1] \in {"sentence-similarity", "feature-extraction"}
    THEN "fill-mask"
    ELSE pipeline_tag.v[1]

ModelConfig(model_id, framework, task, languages, revision) ==
    [model_id |-> model_id, framework |-> framework, task |-> task,
     languages |-> languages, revision |-> revision]

\* The revision given after '@' is dropped in favour of the default.
ConfigFromModels_default_revision(models, model_id_without_revision, revision) ==
    IF Len(models) = 0 THEN Raise(Exc("InvalidBenchmark"))
    ELSE LET tags == models[1].tags
             framework == DetectFramework(tags)
         IN  IF framework.kind = "raise" THEN framework
             ELSE Return(ModelConfig(model_id_without_revision,
                                     framework.val,
                                     DetectTask(models[1].pipeline_tag),
                                     SelectSeq(tags, LAMBDA tag : tag \in CatalogCodes),
                                     "main"))

\* The metadata is read from the last match instead of the first.
ConfigFromModels_last_match(models, model_id_without_revision, revision) ==
    IF Len(models) = 0 THEN Raise(Exc("InvalidBenchmark"))
    ELSE LET tags == models[Len(models)].tags
             framework == DetectFramework(tags)
         IN  IF framework.kind = "raise" THEN framework
             ELSE Return(ModelConfig(model_id_without_revision,
                                     framework.val,
                                     DetectTask(models[Len(models)].pipeline_tag),
                                     SelectSeq(tags, LAMBDA tag : tag \in CatalogCodes),
                                     revision))

\* the body of the try block once list_models has answered with `models`
ConfigFromModels(models, model_id_without_revision, revision) ==
    IF Len(models) = 0 THEN Raise(Exc("InvalidBenchmark"))
    ELSE LET tags == models[1].tags
             framework == DetectFramework(tags)
         IN  IF framework.kind = "raise" THEN framework
             ELSE Return(ModelConfig(model_id_without_revision,
                                     framework.val,
                                     DetectTask(models[1].pipeline_tag),
                                     SelectSeq(tags, LAMBDA tag : tag \in CatalogCodes),
                                     revision))

\* The registry is asked before the 'random' test.
get_model_config_query_first(model_id, response) ==
    LET log == <<Query([author |-> None, model_name |-> Str(model_id)], response)>>
    IN  IF response.status = "error"
        THEN [ret |-> Raise(Exc("ConnectionError")), net |-> log]
        ELSE IF StartsWith(model_id, "random")
        THEN [ret |-> Return(ModelConfig(model_id, "pytorch", "fill-mask",
                                         <<>>, "main")),
              net |-> log]
        ELSE [ret |-> ConfigFromModels(response.models, model_id, "main"),
              net |-> log]

\* what the call gives back and the queries it issued, when the registry
\* reacts to a query with `response`
get_model_config(model_id, response) ==
    IF StartsWith(model_id, "random")
    THEN [ret |-> Return(ModelConfig(model_id, "pytorch", "fill-mask",
                                     <<>>, "main")),
          net |-> <<>>]
    ELSE
    LET has_rev == Positions(model_id, "@") # {}
        model_id_without_revision ==
            IF has_rev THEN SplitFirst(model_id, "@")[1] ELSE model_id
        revision == IF has_rev THEN SplitFirst(model_id, "@")[2] ELSE "main"
        slashes == Cardinality(Positions(model_id_without_revision, "/"))
    IN  IF slashes > 1
        \* author, model_name = x.split("/") with more than two parts
        THEN [ret |-> Raise(Exc("ValueError")), net |-> <<>>]
        ELSE
        LET author == IF slashes = 1
                      THEN Str(SplitFirst(model_id_without_revision, "/")[1])
                      ELSE None
            model_name == IF slashes = 1
                          THEN SplitFirst(model_id_without_revision, "/")[2]
                          ELSE model_id_without_revision
            log == <<Query([author |-> author, model_name |-> Str(model_name)],
                           response)>>
        IN  IF response.status = "error"
            THEN \* except RequestException: raise ConnectionError(...)
                 IF IsRequestException(TransportExc(response.error))
                 THEN [ret |-> Raise(Exc("ConnectionError")), net |-> log]
                 ELSE [ret |-> Raise(TransportExc(response.error)), net |-> log]
            ELSE [ret |-> ConfigFromModels(response.models,
                                           model_id_without_revision, revision),
                  net |-> log]

(***************************************************************************)
(* hf_hub.py: get_model_lists                                              *)
(***************************************************************************)
multi_models ==
    <<"xlm-roberta-large",
      "Peltarion/xlm-roberta-longformer-base-4096",
      "microsoft/xlm-align-base",
      "microsoft/infoxlm-base",
      "microsoft/infoxlm-large",
      "bert-base-multilingual-cased",
      "bert-base-multilingual-uncased",
      "distilbert-base-multilingual-cased",
      "cardiffnlp/twitter-xlm-roberta-base">>

random_models ==
    <<"random-xlmr-base-sequence-clf",
      "random-xlmr-base-token-clf",
      "random-electra-small-sequence-clf",
      "random-electra-small-token-clf">>

multi_da_models ==
    <<"Geotrend/bert-base-en-da-cased",
      "Geotrend/bert-base-25lang-cased",
      "Geotrend/bert-base-en-fr-de-no-da-cased",
      "Geotrend/distilbert-base-en-da-cased",
      "Geotrend/distilbert-base-25lang-cased",
      "Geotrend/distilbert-base-en-fr-de-no-da-cased">>

multi_no_models ==
    <<"Geotrend/bert-base-en-no-cased",
      "Geotrend/bert-base-25lang-cased",
      "Geotrend/bert-base-en-fr-de-no-da-cased",
      "Geotrend/distilbert-base-en-no-cased",
      "Geotrend/distilbert-base-25lang-cased",
      "Geotrend/distilbert-base-en-fr-de-no-da-cased">>

\* language == text, for a Language object and a str: Language is a plain
\* record of code and name, which no str is equal to
LanguageEqualsStr(language, text) == FALSE

\* text in languages, for a sequence of Language objects and a str
StrInLanguages(text, languages) ==
    \E i \in DOMAIN languages : LanguageEqualsStr(languages[i], text)

\* alphabetical position of the language names and of the model tasks
NameOrder ==
    <<"Danish", "Norwegian", "Norwegian Bokmal", "Norwegian Nynorsk", "Swedish">>

ModelTaskOrder == <<"fill-mask", "text-classification", "token-classification">>

RECURSIVE SortedByName(_, _)
\* sorted(languages, key=lambda x: x.name) from the r-th name on: stable
SortedByName(languages, r) ==
    IF r > Len(NameOrder) THEN <<>>
    ELSE SelectSeq(languages, LAMBDA x : x.name = NameOrder[r])
             \o SortedByName(languages, r + 1)

RECURSIVE SortedTaskNames(_, _)
\* sorted(tasks) from the r-th task name on
SortedTaskNames(tasks, r) ==
    IF r > Len(ModelTaskOrder) THEN <<>>
    ELSE SelectSeq(tasks, LAMBDA x : x = ModelTaskOrder[r])
             \o SortedTaskNames(tasks, r + 1)

\* model_lists[key].extend(ids) on a defaultdict(list)
Extend(model_lists, key, ids) ==
    IF key \in DOMAIN model_lists
    THEN [model_lists EXCEPT ![key] = @ \o ids]
    ELSE model_lists @@ (key :> ids)

\* model_lists[key] = ids
Assign(model_lists, key, ids) ==
    IF key \in DOMAIN model_lists
    THEN [model_lists EXCEPT ![key] = ids]
    ELSE model_lists @@ (key :> ids)

\* the empty defaultdict
EmptyDict == [key \in {} |-> <<>>]

\* for language in codes: for task in tasks or [None]
QueryPairs(codes, tasks) ==
    LET task_list == IF tasks.t = "none" \/ Len(tasks.v) = 0
                     THEN <<None>>
                     ELSE [j \in DOMAIN tasks.v |-> Str(tasks.v[j])]
        nt == Len(task_list)
    IN  [k \in 1..(Len(codes) * nt) |->
            [language |-> Str(codes[((k - 1) \div nt) + 1]),
             task |-> task_list[((k - 1) % nt) + 1]]]

\* storing the model IDs of one answered query
Store(model_lists, pair, model_ids) ==
    LET with_all == Extend(model_lists, "all", model_ids)
        with_language == Extend(with_all, pair.language.v[1], model_ids)
    IN  IF pair.task.t = "none" THEN with_language
        ELSE Extend(with_language, pair.task.v[1], model_ids)

RECURSIVE FetchLoop(_, _, _, _, _)
\* the loop over the queries from the k-th on; a failing query ends the call
\* with the transport's exception, as nothing catches it
FetchLoop(pairs, responses, k, model_lists, log) ==
    IF k > Len(pairs)
    THEN [failed |-> FALSE, error |-> "", model_lists |-> model_lists, net |-> log]
    ELSE LET response == responses[k]
             asked == Append(log, Query(pairs[k], response))
         IN  IF response.status = "error"
             THEN [failed |-> TRUE, error |-> response.error,
                   model_lists |-> model_lists, net |-> asked]
             ELSE FetchLoop(pairs, responses, k + 1,
                            Store(model_lists, pairs[k],
                                  [i \in DOMAIN response.models |-> response.models[i].id]),
                            asked)

\* The buckets are returned as they were filled.
Curate_no_dedupe(model_lists, languages) ==
    LET with_multi == Extend(Assign(model_lists, "multilingual", multi_models),
                             "all", multi_models)
    IN  Extend(with_multi, "all", random_models)

\* the manual additions and the removal of duplicates
Curate(model_lists, languages) ==
    LET with_multi == Extend(Assign(model_lists, "multilingual", multi_models),
                             "all", multi_models)
        with_random == Extend(with_multi, "all", random_models)
        with_da == IF StrInLanguages("da", languages)
                   THEN Extend(Extend(with_random, "da", multi_da_models),
                               "all", multi_da_models)
                   ELSE with_random
        with_no == IF \E lang \in {"no", "nb", "nn"} : StrInLanguages(lang, languages)
                   THEN Extend(Extend(with_da, "no", multi_no_models),
                               "all", multi_no_models)
                   ELSE with_da
    IN  [key \in DOMAIN with_no |-> SetToList(SetOf(with_no[key]))]

\* the languages and tasks as the loop sees them: sorted unless of length 1
SortedLanguages(languages) ==
    IF Len(languages) = 1 THEN languages
    ELSE SortedByName(languages, 1)

SortedTasks(tasks) ==
    IF tasks.t = "none" \/ Len(tasks.v) = 1 THEN tasks
    ELSE List(SortedTaskNames(tasks.v, 1))

\* queries the call issues when none of them fails
QueryCount(languages, tasks) ==
    IF Len(languages) = 0 \/ (tasks.t = "list" /\ Len(tasks.v) = 0) THEN 0
    ELSE Len(QueryPairs([i \in DOMAIN languages |-> languages[i].code], tasks))

\* what the call gives back and the queries it issued, when the registry
\* reacts to the k-th query with responses[k]
get_model_lists(languages, tasks, responses) ==
    IF Len(languages) = 0
    \* languages[-1] of an empty list, in forming the string of languages
    THEN [ret |-> Raise(Exc("IndexError")), net |-> <<>>]
    ELSE IF tasks.t = "list" /\ Len(tasks.v) = 0
    \* tasks[-1] of an empty list, in forming the string of tasks
    THEN [ret |-> Raise(Exc("IndexError")), net |-> <<>>]
    ELSE
    LET sorted_languages == SortedLanguages(languages)
        codes == [i \in DOMAIN sorted_languages |-> sorted_languages[i].code]
        pairs == QueryPairs(codes, SortedTasks(tasks))
        fetched == FetchLoop(pairs, responses, 1, EmptyDict, <<>>)
    IN  IF fetched.failed
        THEN [ret |-> Raise(TransportExc(fetched.error)), net |-> fetched.net]
        ELSE [ret |-> Return(Curate(fetched.model_lists, sorted_languages)),
              net |-> fetched.net]

(***************************************************************************)
(* dataset_factory.py                                                      *)
(***************************************************************************)
DatasetConfig(name, task, supertask) ==
    [name |-> name, task |-> task, supertask |-> supertask]

\* the argument of build_dataset: the name of a dataset, or its configuration
DatasetName(name) == [t |-> "str", name |-> name, config |-> <<>>]

GivenConfig(dataset_config) == [t |-> "config", name |-> "", config |-> <<dataset_config>>]

\* datasets.get_dataset_config: the configuration registered under a name
get_dataset_config(name) ==
    CASE name = "angry-tweets" ->
             DatasetConfig(name, "sentiment-classification", "text-classification")
      [] name = "dane" -> DatasetConfig(name, "ner", "token-classification")
      [] name = "scandiqa-da" -> DatasetConfig(name, "qa", "question-answering")

\* a benchmark dataset object: its class and what it was constructed with
BenchmarkDataset(benchmark_cls, dataset_config, benchmark_config) ==
    [benchmark_cls |-> benchmark_cls,
     dataset_config |-> dataset_config,
     benchmark_config |-> benchmark_config]

\* The task is looked at before the supertask.
build_dataset_task_first(benchmark_config, dataset) ==
    LET dataset_config == IF dataset.t = "str" THEN get_dataset_config(dataset.name)
                          ELSE dataset.config[1]
    IN  IF dataset_config.task = "ner"
        THEN Return(BenchmarkDataset("NERBenchmark", dataset_config, benchmark_config))
        ELSE IF dataset_config.task = "qa"
        THEN Return(BenchmarkDataset("QABenchmark", dataset_config, benchmark_config))
        ELSE IF dataset_config.supertask = "text-classification"
        THEN Return(BenchmarkDataset("TextClassificationBenchmark",
                                     dataset_config, benchmark_config))
        ELSE Raise(Exc("ValueError"))

\* DatasetFactory(benchmark_config).build_dataset(dataset)
build_dataset(benchmark_config, dataset) ==
    LET dataset_config == IF dataset.t = "str" THEN get_dataset_config(dataset.name)
                          ELSE dataset.config[1]
    IN  IF dataset_config.supertask = "text-classification"
        THEN Return(BenchmarkDataset("TextClassificationBenchmark",
                                     dataset_config, benchmark_config))
        ELSE IF dataset_config.task = "ner"
        THEN Return(BenchmarkDataset("NERBenchmark", dataset_config, benchmark_config))
        ELSE IF dataset_config.task = "qa"
        THEN Return(BenchmarkDataset("QABenchmark", dataset_config, benchmark_config))
        ELSE Raise(Exc("ValueError"))

(***************************************************************************)
(* Inputs of the resolvers.                                                *)
(***************************************************************************)
\* codes a caller may write: the catalog's, the sentinel, one unknown code
SelectorCodes == CatalogCodes \cup {"all", "xx"}

RECURSIVE SeqsUpTo(_, _)
SeqsUpTo(S, n) ==
    IF n = 0 THEN {<<>>}
    ELSE LET shorter == SeqsUpTo(S, n - 1)
         IN  shorter \cup {Append(s, x) : s \in shorter, x \in S}

LanguageSelectors ==
    {Str(s) : s \in SelectorCodes \cup {"small"}}
        \cup {List(l) : l \in SeqsUpTo(SelectorCodes, MaxSel)}

\* the default language codes the sub-resolvers are handed: what
\* prepare_languages returns
BaseLanguages == {prepare_languages(language) : language \in LanguageSelectors}

OverrideSelectors ==
    {None}
        \cup {Str(s) : s \in {"da", "no", "nb", "all", "xx"}}
        \cup {List(l) : l \in {<<>>, <<"nn">>, <<"no", "da">>, <<"all", "xx">>}}

TaskSelectors ==
    {None}
        \cup {Str(s) : s \in {"ner", "zz"}}
        \cup {List(l) : l \in {<<>>, <<"qa", "ner">>, <<"ner", "zz">>}}

\* model identifiers a caller may write
ModelIds ==
    {"random-xlmr-base-sequence-clf", "random-electra-small-token-clf@v1",
     "randomorg/bert@v2", "random", "xrandom-model",
     "bert-base", "bert-base@v1", "bert-base@v1@rc", "bert-base@",
     "org/bert", "org/bert@v1", "org/bert@feat/x", "@v1",
     "org/sub/bert", "org/sub/bert@v1"}

\* tags a registry model may carry
Tags == {"pytorch", "jax", "spacy", "tf", "tensorflow", "keras", "da", "transformers"}

PipelineTags ==
    {None} \cup {Str(s) : s \in {"fill-mask", "feature-extraction", "token-classification"}}

\* what list_models may do on the (author, name) query: fail, find nothing,
\* or find a first model, alone or followed by another one
FurtherModels ==
    {<<>>, <<ModelInfo("other/model", <<"tf", "sv">>, Str("text-classification"))>>}

ConfigResponses ==
    {Failure(e) : e \in TransportErrors}
        \cup {Answer(<<>>)}
        \cup {Answer(<<ModelInfo("org/bert", tags, pipeline_tag)>> \o further) :
                tags \in SeqsUpTo(Tags, MaxTags),
                pipeline_tag \in PipelineTags,
                further \in FurtherModels}

\* arguments of get_model_lists
LanguageSeqs == SeqsUpTo(SetOf(AllLanguages), MaxLangs)

ModelTaskSelectors ==
    {None} \cup {List(l) : l \in {<<>>, <<"fill-mask">>,
                                  <<"token-classification", "fill-mask">>}}

\* what list_models may answer to a (language, task) query
ListAnswers ==
    {Answer(<<>>),
     Answer(<<ModelInfo("KB/bert-base-swedish-cased", <<"sv">>, Str("fill-mask"))>>),
     Answer(<<ModelInfo("Geotrend/bert-base-25lang-cased", <<>>, Str("fill-mask")),
              ModelInfo("xlm-roberta-large", <<>>, Str("fill-mask")),
              ModelInfo("Geotrend/bert-base-25lang-cased", <<>>, Str("fill-mask"))>>)}

\* the registry's reactions to the n queries of one call: all of them
\* answered, or some answered and the next one failing
ResponseRuns(n) ==
    {run \in SeqsUpTo(ListAnswers, n) : Len(run) = n}
        \cup (IF n = 0 THEN {}
              ELSE {Append(run, Failure(e)) :
                        run \in SeqsUpTo(ListAnswers, n - 1), e \in TransportErrors})

\* arguments of DatasetFactory and build_dataset: the factory's benchmark
\* configuration, and a registered name or a configuration of any task and
\* supertask
FactoryConfigs ==
    {[batch_size |-> b, raise_errors |-> r] : b \in {16, 32}, r \in BOOLEAN}

DatasetArguments ==
    {DatasetName(n) : n \in {"angry-tweets", "dane", "scandiqa-da"}}
        \cup {GivenConfig(DatasetConfig("custom", task, supertask)) :
                task \in {"sentiment-classification", "ner", "qa", "unknown-task"},
                supertask \in {"text-classification", "token-classification",
                               "question-answering", "unknown-supertask"}}

(***************************************************************************)
(* The calls.  The resolvers keep no state between calls, so a behaviour   *)
(* is one call: Init is a caller about to make it, the action is the call.  *)
(***************************************************************************)
Pending == [kind |-> "pending"]

InitPrepareLanguages ==
    \E language \in LanguageSelectors :
        call = [op |-> "prepare_languages", language |-> language]

InitPrepareDatasetTasks ==
    \E dataset_task \in TaskSelectors :
        call = [op |-> "prepare_dataset_tasks", dataset_task |-> dataset_task]

InitBuildBenchmarkConfig ==
    \E language \in LanguageSelectors, model_language \in OverrideSelectors,
       dataset_language \in OverrideSelectors, dataset_task \in TaskSelectors :
        call = [op |-> "build_benchmark_config",
                language |-> language,
                model_language |-> model_language,
                dataset_language |-> dataset_language,
                dataset_task |-> dataset_task]

InitGetModelConfig ==
    \E model_id \in ModelIds :
        call = [op |-> "get_model_config", model_id |-> model_id]

InitGetModelLists ==
    \E languages \in LanguageSeqs, tasks \in ModelTaskSelectors :
        call = [op |-> "get_model_lists", languages |-> languages, tasks |-> tasks]

InitBuildDataset ==
    \E benchmark_config \in FactoryConfigs, dataset \in DatasetArguments :
        call = [op |-> "build_dataset",
                benchmark_config |-> benchmark_config,
                dataset |-> dataset]

InitPrepareModelLanguages ==
    \E model_language \in OverrideSelectors, languages \in BaseLanguages :
        call = [op |-> "prepare_model_languages",
                model_language |-> model_language,
                languages |-> languages]

InitPrepareDatasetLanguages ==
    \E dataset_language \in OverrideSelectors, languages \in BaseLanguages :
        call = [op |-> "prepare_dataset_languages",
                dataset_language |-> dataset_language,
                languages |-> languages]

Init ==
    /\ \/ InitPrepareLanguages
       \/ InitPrepareDatasetTasks
       \/ InitBuildBenchmarkConfig
       \/ InitGetModelConfig
       \/ InitGetModelLists
       \/ InitBuildDataset
       \/ InitPrepareModelLanguages
       \/ InitPrepareDatasetLanguages
    /\ ret = Pending
    /\ net = <<>>

PrepareLanguages ==
    /\ call.op = "prepare_languages"
    /\ ret = Pending
    /\ ret' = Return(prepare_languages(call.language))
    /\ UNCHANGED <<call, net>>

PrepareDatasetTasks ==
    /\ call.op = "prepare_dataset_tasks"
    /\ ret = Pending
    /\ ret' = prepare_dataset_tasks(call.dataset_task)
    /\ UNCHANGED <<call, net>>

BuildBenchmarkConfig ==
    /\ call.op = "build_benchmark_config"
    /\ ret = Pending
    /\ ret' = build_benchmark_config(call.language, call.model_language,
                                     call.dataset_language, call.dataset_task)
    /\ UNCHANGED <<call, net>>

GetModelConfig ==
    /\ call.op = "get_model_config"
    /\ ret = Pending
    /\ \E response \in ConfigResponses :
           LET out == get_model_config(call.model_id, response)
           IN  /\ ret' = out.ret
               /\ net' = out.net
    /\ UNCHANGED call

GetModelLists ==
    /\ call.op = "get_model_lists"
    /\ ret = Pending
    /\ \E responses \in ResponseRuns(QueryCount(call.languages, call.tasks)) :
           LET out == get_model_lists(call.languages, call.tasks, responses)
           IN  /\ ret' = out.ret
               /\ net' = out.net
    /\ UNCHANGED call

BuildDataset ==
    /\ call.op = "build_dataset"
    /\ ret = Pending
    /\ ret' = build_dataset(call.benchmark_config, call.dataset)
    /\ UNCHANGED <<call, net>>

PrepareModelLanguages ==
    /\ call.op = "prepare_model_languages"
    /\ ret = Pending
    /\ ret' = prepare_model_languages(call.model_language, call.languages)
    /\ UNCHANGED <<call, net>>

PrepareDatasetLanguages ==
    /\ call.op = "prepare_dataset_languages"
    /\ ret = Pending
    /\ ret' = prepare_dataset_languages(call.dataset_language, call.languages)
    /\ UNCHANGED <<call, net>>

Next ==
    \/ PrepareLanguages
    \/ PrepareDatasetTasks
    \/ BuildBenchmarkConfig
    \/ GetModelConfig
    \/ GetModelLists
    \/ BuildDataset
    \/ PrepareModelLanguages
    \/ PrepareDatasetLanguages

Spec == Init /\ [][Next]_vars

(***************************************************************************)
(* Vocabulary of the properties.                                           *)
(***************************************************************************)
Returned(op) == call.op = op /\ ret.kind = "return"

Norwegian == {"no", "nb", "nn"}

NorwegianPart(S) == S \cap Norwegian

\* none of 'no', 'nb', 'nn', or all three
NorwegianClosed(S) == NorwegianPart(S) \in {{}, Norwegian}

\* the code sets of a list of Language objects
Codes(langs) == {langs[i].code : i \in DOMAIN langs}

\* the codes a selector names: the scalar itself, or the items of the list
Named(sel) == SetOf(sel.v)

\* a selector that names exactly one of 'nb', 'nn' and neither 'no' nor 'all'
OneSided(sel) ==
    /\ "all" \notin Named(sel)
    /\ ~(sel.t = "str" /\ AllIn(sel))
    /\ "no" \notin Named(sel)
    /\ Cardinality(Named(sel) \cap {"nb", "nn"}) = 1

(***************************************************************************)
(* C1, as stated: every resolved language set of build_benchmark_config    *)
(* (the result of prepare_languages, model_languages, dataset_languages)   *)
(* holds none of 'no', 'nb', 'nn' or all three.                            *)
(***************************************************************************)
C1_AllOrNothing ==
    Returned("build_benchmark_config") =>
        /\ NorwegianClosed(SetOf(prepare_languages(call.language)))
        /\ NorwegianClosed(Codes(ret.val.model_languages))
        /\ NorwegianClosed(Codes(ret.val.dataset_languages))

\* what an override selector resolves to, as far as 'no', 'nb', 'nn' go
C1_OverridePart(override, base, resolved) ==
    IF override.t = "none" THEN NorwegianPart(resolved) = NorwegianPart(base)
    ELSE IF "all" \in Named(override) THEN NorwegianPart(resolved) = Norwegian
    ELSE NorwegianPart(resolved) = NorwegianPart(Named(override))

(***************************************************************************)
(* C1, amended: the result of prepare_languages holds none or all of 'no', *)
(* 'nb', 'nn', except for a selector naming exactly one of 'nb', 'nn' and  *)
(* neither 'no' nor 'all', which resolves to that code and 'no' without    *)
(* the other one.  model_languages and dataset_languages hold the same     *)
(* Norwegian codes as that result when their override is None, all three   *)
(* when the override names 'all', and otherwise exactly the Norwegian      *)
(* codes the override names, with nothing added.                           *)
(***************************************************************************)
C1_ClosureWhereApplied ==
    Returned("build_benchmark_config") =>
        LET base == SetOf(prepare_languages(call.language))
        IN  /\ ~OneSided(call.language) => NorwegianClosed(base)
            /\ OneSided(call.language) =>
                   NorwegianPart(base) = NorwegianPart(Named(call.language)) \cup {"no"}
            /\ C1_OverridePart(call.model_language, base,
                               Codes(ret.val.model_languages))
            /\ C1_OverridePart(call.dataset_language, base,
                               Codes(ret.val.dataset_languages))

C1_Witness ==
    /\ Returned("build_benchmark_config")
    /\ call.language = List(<<"nn", "da">>)
    /\ call.model_language = Str("nb")
    /\ call.dataset_language = None
    /\ Codes(ret.val.model_languages) = {"nb"}
    /\ Codes(ret.val.dataset_languages) = {"nn", "no", "da"}

(***************************************************************************)
(* C2: prepare_languages on a selector naming 'no' gives a set with 'nb'   *)
(* and 'nn'; on a selector naming 'nb' or 'nn' it gives a set with 'no'.   *)
(***************************************************************************)
C2_NorwegianLinked ==
    Returned("prepare_languages") =>
        /\ "no" \in Named(call.language) => {"nb", "nn"} \subseteq SetOf(ret.val)
        /\ Named(call.language) \cap {"nb", "nn"} # {} => "no" \in SetOf(ret.val)

C2_Witness ==
    /\ Returned("prepare_languages")
    /\ call.language = List(<<"nn", "da">>)
    /\ "no" \in SetOf(ret.val)

(***************************************************************************)
(* C3, as stated: prepare_languages applied to its own result gives the    *)
(* same set of codes.                                                      *)
(***************************************************************************)
C3_Idempotent ==
    Returned("prepare_languages") =>
        SetOf(prepare_languages(List(ret.val))) = SetOf(ret.val)

(***************************************************************************)
(* C3, amended: prepare_languages applied to its own result gives the same *)
(* set of codes, except for a selector naming exactly one of 'nb', 'nn'    *)
(* and neither 'no' nor 'all': there the second application adds the       *)
(* other of 'nb', 'nn' to the first result.                                *)
(***************************************************************************)
C3_IdempotentButOneSided ==
    Returned("prepare_languages") =>
        LET again == SetOf(prepare_languages(List(ret.val)))
        IN  /\ ~OneSided(call.language) => again = SetOf(ret.val)
            /\ OneSided(call.language) =>
                   /\ again = SetOf(ret.val) \cup {"nb", "nn"}
                   /\ again # SetOf(ret.val)

C3_Witness ==
    /\ Returned("prepare_languages")
    /\ call.language = List(<<"no", "da">>)
    /\ SetOf(ret.val) = {"no", "nb", "nn", "da"}
    /\ SetOf(prepare_languages(List(ret.val))) = SetOf(ret.val)

(***************************************************************************)
(* C4: prepare_languages on the scalar 'all' or on a list holding 'all'    *)
(* returns exactly the catalog's codes, and prepare_dataset_tasks(None)    *)
(* returns exactly the catalog's dataset tasks.                            *)
(***************************************************************************)
C4_SentinelIsCatalog ==
    /\ (Returned("prepare_languages") /\ "all" \in Named(call.language)) =>
           SetOf(ret.val) = CatalogCodes
    /\ (call.op = "prepare_dataset_tasks" /\ ret # Pending
            /\ call.dataset_task = None) =>
           /\ ret.kind = "return"
           /\ SetOf(ret.val) = {DatasetTask(n) : n \in SetOf(DatasetTaskNames)}

C4_Witness ==
    /\ Returned("prepare_languages")
    /\ call.language = List(<<"all", "xx">>)
    /\ SetOf(ret.val) = CatalogCodes

(***************************************************************************)
(* Vocabulary of the registry properties.                                  *)
(***************************************************************************)
\* the call is over, with a value or with an exception
Done(op) == call.op = op /\ ret # Pending

NoDuplicates(seq) == Cardinality(SetOf(seq)) = Len(seq)

\* the bucket holds every identifier of the curated list
BucketHolds(model_lists, key, curated) ==
    /\ key \in DOMAIN model_lists
    /\ SetOf(curated) \subseteq SetOf(model_lists[key])

(***************************************************************************)
(* C5: whenever a registry query of get_model_config or get_model_lists    *)
(* failed in the transport, the caller receives a ConnectionError raised   *)
(* by the resolver, and not the transport's own exception.                 *)
(***************************************************************************)
C5_TransportFailureIsConnectionError ==
    \A i \in DOMAIN net :
        net[i].response.status = "error" =>
            /\ ret.kind = "raise"
            /\ ret.exc.type = "ConnectionError"
            /\ ret.exc.origin = "scandeval"

(***************************************************************************)
(* C6: get_model_lists with tasks None and a Language of code 'da' among   *)
(* the languages returns every curated Danish identifier in the 'da' and   *)
(* in the 'all' bucket, neither bucket holding an identifier twice.        *)
(***************************************************************************)
C6_DanishOverrides ==
    (/\ Returned("get_model_lists")
     /\ call.tasks = None
     /\ \E i \in DOMAIN call.languages : call.languages[i].code = "da") =>
        /\ BucketHolds(ret.val, "da", multi_da_models)
        /\ BucketHolds(ret.val, "all", multi_da_models)
        /\ NoDuplicates(ret.val["da"])
        /\ NoDuplicates(ret.val["all"])

(***************************************************************************)
(* C7: get_model_lists with a Language of code 'no', 'nb' or 'nn' among    *)
(* the languages returns every curated Norwegian identifier in the 'no'    *)
(* and in the 'all' bucket.                                                *)
(***************************************************************************)
C7_NorwegianOverrides ==
    (/\ Returned("get_model_lists")
     /\ \E i \in DOMAIN call.languages : call.languages[i].code \in Norwegian) =>
        /\ BucketHolds(ret.val, "no", multi_no_models)
        /\ BucketHolds(ret.val, "all", multi_no_models)

(***************************************************************************)
(* C8: get_model_config on an identifier starting with 'random' returns    *)
(* the ModelConfig of framework 'pytorch', task 'fill-mask', no languages  *)
(* and revision 'main', and has issued no registry query.                  *)
(***************************************************************************)
C8_RandomWithoutNetwork ==
    (Done("get_model_config") /\ StartsWith(call.model_id, "random")) =>
        /\ ret.kind = "return"
        /\ ret.val.framework = "pytorch"
        /\ ret.val.task = "fill-mask"
        /\ ret.val.languages = <<>>
        /\ ret.val.revision = "main"
        /\ net = <<>>

C8_Witness ==
    /\ Returned("get_model_config")
    /\ call.model_id = "random-xlmr-base-sequence-clf"
    /\ ret.val.framework = "pytorch"
    /\ ret.val.revision = "main"
    /\ net = <<>>

\* model_id and revision are the identifier cut at its first '@', or the
\* identifier and 'main' when it has no '@'
C9_SplitAtFirstAt(identifier, model_id, revision) ==
    IF Positions(identifier, "@") = {}
    THEN model_id = identifier /\ revision = "main"
    ELSE /\ Positions(model_id, "@") = {}
         /\ model_id \o "@" \o revision = identifier

(***************************************************************************)
(* C9, as stated: every ModelConfig get_model_config returns, also for a   *)
(* 'random' identifier, has the identifier's text before the first '@' as  *)
(* model_id and the text after it as revision ('main' without '@').        *)
(***************************************************************************)
C9_RevisionSplitAlways ==
    Returned("get_model_config") =>
        C9_SplitAtFirstAt(call.model_id, ret.val.model_id, ret.val.revision)

(***************************************************************************)
(* C9, amended: every ModelConfig get_model_config returns for an          *)
(* identifier that does not start with 'random' has the identifier's text  *)
(* before the first '@' as model_id and the text after it as revision      *)
(* ('main' without '@'); for an identifier starting with 'random' the      *)
(* model_id is the whole identifier, '@' and what follows included, and    *)
(* the revision is 'main'.                                                 *)
(***************************************************************************)
C9_RevisionSplitUnlessRandom ==
    Returned("get_model_config") =>
        IF StartsWith(call.model_id, "random")
        THEN ret.val.model_id = call.model_id /\ ret.val.revision = "main"
        ELSE C9_SplitAtFirstAt(call.model_id, ret.val.model_id, ret.val.revision)

C9_Witness ==
    /\ Returned("get_model_config")
    /\ call.model_id = "bert-base@v1@rc"
    /\ ret.val.model_id = "bert-base"
    /\ ret.val.revision = "v1@rc"

\* the tags of the first match of an answered (author, name) query
C10_FirstTags == SetOf(net[1].response.models[1].tags)

C10_Matched ==
    /\ Done("get_model_config")
    /\ Len(net) = 1
    /\ net[1].response.status = "ok"
    /\ Len(net[1].response.models) > 0

C10_Framework(framework) == ret.kind = "return" /\ ret.val.framework = framework

C11_Asked == Done("get_model_config") /\ Len(net) = 1

\* the task a match's pipeline_tag stands for
C11_TaskOf(match) ==
    IF match.pipeline_tag = None THEN "fill-mask"
    ELSE IF match.pipeline_tag \in {Str("sentence-similarity"), Str("feature-extraction")}
    THEN "fill-mask"
    ELSE match.pipeline_tag.v[1]

\* the ModelConfig, if one is returned, carries the metadata of this match
C11_MetadataOf(match) ==
    ret.kind = "return" =>
        /\ SetOf(ret.val.languages) = SetOf(match.tags) \cap CatalogCodes
        /\ ret.val.task = C11_TaskOf(match)
        /\ ret.val.framework \in SetOf(match.tags) \cup {"pytorch"}

(***************************************************************************)
(* C11: in get_model_config on an identifier without the 'random' prefix,  *)
(* a query answered with no match ends in InvalidBenchmark, a query that   *)
(* fails in the transport ends in ConnectionError, and a query answered    *)
(* with matches ends in a ModelConfig built from the first match, or in   *)
(* InvalidBenchmark when the first match carries a TensorFlow/Keras tag.   *)
(***************************************************************************)
C11_NotFoundVersusUnreachable ==
    C11_Asked =>
        /\ ~StartsWith(call.model_id, "random")
        /\ (net[1].response.status = "ok" /\ Len(net[1].response.models) = 0) =>
               ret = Raise(Exc("InvalidBenchmark"))
        /\ net[1].response.status = "error" =>
               ret = Raise(Exc("ConnectionError"))
        /\ (net[1].response.status = "ok" /\ Len(net[1].response.models) > 0) =>
               /\ ret.kind = "raise" =>
                      /\ ret = Raise(Exc("InvalidBenchmark"))
                      /\ SetOf(net[1].response.models[1].tags)
                             \cap {"tf", "tensorflow", "keras"} # {}
               /\ C11_MetadataOf(net[1].response.models[1])

C11_Witness ==
    /\ C11_Asked
    /\ call.model_id = "org/bert@v1"
    /\ net[1].response.status = "ok"
    /\ Len(net[1].response.models) = 2
    /\ net[1].response.models[1].tags = <<"da", "jax">>
    /\ ret.kind = "return"
    /\ ret.val.languages = <<"da">>
    /\ ret.val.framework = "jax"

\* the dataset configuration a build_dataset call works on
C12_Config ==
    IF call.dataset.t = "str" THEN get_dataset_config(call.dataset.name)
    ELSE call.dataset.config[1]

\* the call returned an executor of this class, constructed with the
\* resolved dataset configuration and the factory's benchmark configuration
C12_Built(benchmark_cls) ==
    /\ ret.kind = "return"
    /\ ret.val.benchmark_cls = benchmark_cls
    /\ ret.val.dataset_config = C12_Config
    /\ ret.val.benchmark_config = call.benchmark_config

\* the dispatch of build_dataset, an unknown task ending in `unknown`
C12_Dispatch(unknown) ==
    Done("build_dataset") =>
        IF C12_Config.supertask = "text-classification"
        THEN C12_Built("TextClassificationBenchmark")
        ELSE IF C12_Config.task = "ner" THEN C12_Built("NERBenchmark")
        ELSE IF C12_Config.task = "qa" THEN C12_Built("QABenchmark")
        ELSE ret = Raise(Exc(unknown))

C13_Effective(override, base) == IF override.t = "none" THEN base ELSE override.v

\* a code outside the catalog, and no 'all'
C13_Unrecognized(codes) ==
    /\ ~InList("all", codes)
    /\ \E i \in DOMAIN codes : codes[i] \notin CatalogCodes

\* an identifier outside the task catalog in a scalar or a collection
C13_UnknownTask(dataset_task) ==
    /\ dataset_task.t # "none"
    /\ \E i \in DOMAIN dataset_task.v : ~InList(dataset_task.v[i], DatasetTaskNames)

\* the three resolvers end an unrecognized selector with this exception,
\* and so with no list of languages or tasks
C13_FailFast(error) ==
    /\ (/\ Done("prepare_model_languages")
        /\ C13_Unrecognized(C13_Effective(call.model_language, call.languages)))
           => ret = Raise(Exc(error))
    /\ (/\ Done("prepare_dataset_languages")
        /\ C13_Unrecognized(C13_Effective(call.dataset_language, call.languages)))
           => ret = Raise(Exc(error))
    /\ (Done("prepare_dataset_tasks") /\ C13_UnknownTask(call.dataset_task))
           => ret = Raise(Exc(error))

C14_Expected(override, language) ==
    IF override.t = "none" THEN SetOf(prepare_languages(language))
    ELSE IF "all" \in Named(override) THEN CatalogCodes
    ELSE Named(override)

\* the resolved list holds the hydrated Language of exactly these codes
C14_Hydrated(resolved, codes) ==
    SetOf(resolved) = {Language(code) : code \in codes}

(***************************************************************************)
(* C14: in the configuration build_benchmark_config returns, the model     *)
(* languages are the hydrated base set of prepare_languages when the model *)
(* override is None, every catalog language when the override contains     *)
(* 'all', and else exactly the languages the override names; the same for  *)
(* the dataset languages and the dataset override; neither depends on the  *)
(* other's override.                                                       *)
(***************************************************************************)
C14_OverrideReplacesBase ==
    Returned("build_benchmark_config") =>
        /\ C14_Hydrated(ret.val.model_languages,
                        C14_Expected(call.model_language, call.language))
        /\ C14_Hydrated(ret.val.dataset_languages,
                        C14_Expected(call.dataset_language, call.language))

C14_Witness ==
    /\ Returned("build_benchmark_config")
    /\ call.language = Str("sv")
    /\ call.model_language = Str("da")
    /\ call.dataset_language = None
    /\ Codes(ret.val.model_languages) = {"da"}
    /\ Codes(ret.val.dataset_languages) = {"sv"}

\* identifiers the registry returned to the queries of the call
C15_Returned ==
    UNION {{net[k].response.models[i].id : i \in DOMAIN net[k].response.models} :
              k \in DOMAIN net}

C15_Curated ==
    SetOf(multi_models) \cup SetOf(random_models)
        \cup SetOf(multi_da_models) \cup SetOf(multi_no_models)

(***************************************************************************)
(* C15: in the mapping get_model_lists returns, every identifier of any    *)
(* bucket is in the 'all' bucket; 'all' holds only identifiers a query     *)
(* returned or of a curated list; the curated random identifiers are in    *)
(* 'all' and in no other bucket (unless a query returned them); and no     *)
(* bucket holds an identifier twice.                                       *)
(***************************************************************************)
C15_AllIsUnion ==
    Returned("get_model_lists") =>
        /\ "all" \in DOMAIN ret.val
        /\ \A key \in DOMAIN ret.val :
               /\ SetOf(ret.val[key]) \subseteq SetOf(ret.val["all"])
               /\ NoDuplicates(ret.val[key])
               /\ key # "all" =>
                      SetOf(ret.val[key]) \cap SetOf(random_models) \subseteq C15_Returned
        /\ SetOf(ret.val["all"]) \subseteq C15_Returned \cup C15_Curated
        /\ SetOf(random_models) \subseteq SetOf(ret.val["all"])

C15_Witness ==
    /\ Returned("get_model_lists")
    /\ Len(net) = 4
    /\ {"sv", "da", "fill-mask", "token-classification", "multilingual"}
           \subseteq DOMAIN ret.val
    /\ "KB/bert-base-swedish-cased" \in SetOf(ret.val["sv"])
    /\ "Geotrend/bert-base-25lang-cased" \in SetOf(ret.val["fill-mask"])

====
